---- MODULE Spec2Model ----
(***************************************************************************)
(* The transaction-recording core of the ledger: LedgerService (lib.rs)    *)
(* over PostgresLedgerStore (ledger_store.rs).  Every public call is a     *)
(* separate task; the store is shared.  Amounts are Decimal values,        *)
(* modelled as integers (units of the smallest denomination).              *)
(***************************************************************************)
EXTENDS Integers, Sequences, FiniteSets

\* ---------------------------------------------------------------- bounds
MaxCalls == 3        \* calls of credit_account / transfer in one behaviour
MaxAccounts == 2     \* account identifiers that exist in one behaviour
MaxAmount == 1       \* largest amount a caller passes

Calls == 1..MaxCalls
AccountIds == 1..MaxAccounts
Amounts == 0..MaxAmount
Keys == {"k1", "k2"}
None == 0            \* Option::None of an account id

VARIABLES
    accounts,        \* table accounts: ids of the rows
    transactions,    \* table transactions: committed rows, in commit order
    entries,         \* table entries: committed rows, in commit order
    call             \* call[c]: the task running the c-th credit_account/transfer

vars == <<accounts, transactions, entries, call>>

\* ------------------------------------------------------------ transaction.rs
NewTransaction(id, ty, amount, src, dst, key) ==
    [id |-> id, transaction_type |-> ty, amount |-> amount,
     source_account_id |-> src, destination_account_id |-> dst,
     idempotency_key |-> key]

\* a validate that accepts a zero amount
validateZeroAccepted(t) ==
    IF t.amount < 0 THEN "InvalidAmount"
    ELSE IF t.transaction_type = "Credit" /\ t.destination_account_id = None
        THEN "MissingDestinationAccount"
    ELSE IF t.transaction_type = "Debit" /\ t.source_account_id = None
        THEN "MissingSourceAccount"
    ELSE IF t.transaction_type = "Transfer"
            /\ (t.source_account_id = None \/ t.destination_account_id = None)
        THEN "MissingAccountForTransfer"
    ELSE IF t.transaction_type = "Transfer"
            /\ t.source_account_id = t.destination_account_id
        THEN "SameAccountTransfer"
    ELSE "Ok"

validate(t) ==
    IF t.amount <= 0 THEN "InvalidAmount"
    ELSE IF t.transaction_type = "Credit" /\ t.destination_account_id = None
        THEN "MissingDestinationAccount"
    ELSE IF t.transaction_type = "Debit" /\ t.source_account_id = None
        THEN "MissingSourceAccount"
    ELSE IF t.transaction_type = "Transfer"
            /\ (t.source_account_id = None \/ t.destination_account_id = None)
        THEN "MissingAccountForTransfer"
    ELSE IF t.transaction_type = "Transfer"
            /\ t.source_account_id = t.destination_account_id
        THEN "SameAccountTransfer"
    ELSE "Ok"

\* ------------------------------------------------------------------ entry.rs
NewEntry(txid, account, amount, ty, balance_after) ==
    [transaction_id |-> txid, account_id |-> account, amount |-> amount,
     entry_type |-> ty, balance_after |-> balance_after]

\* ----------------------------------------------------------- ledger_store.rs
RECURSIVE SumSeq(_)
SumSeq(s) == IF s = <<>> THEN 0 ELSE Head(s) + SumSeq(Tail(s))

\* the CASE expression of the balance query, with the signs the other way round
EntrySignCreditPositive(e) ==
    IF e.entry_type = "Credit" THEN e.amount ELSE -e.amount

\* CASE WHEN entry_type = 'Debit' THEN amount ELSE -amount END
EntrySign(e) ==
    IF e.entry_type = "Debit" THEN e.amount ELSE -e.amount

\* SELECT COALESCE(SUM(...), 0) FROM entries WHERE account_id = $1
get_account_balance(es, account_id) ==
    LET rows == SelectSeq(es, LAMBDA e : e.account_id = account_id)
    IN  SumSeq([i \in 1..Len(rows) |-> EntrySign(rows[i])])

\* SELECT id FROM transactions WHERE idempotency_key = $1 (committed rows)
ExistingByKey(txs, key) ==
    \E i \in 1..Len(txs) : txs[i].idempotency_key = key

\* ---------------------------------------------------------------- call state
IdleCall ==
    [op |-> "none", pc |-> "idle", result |-> "none",
     tx |-> NewTransaction(0, "none", 0, None, None, "none"),
     source_balance |-> 0,   \* the value read by transfer's funds check
     gen |-> <<>>,           \* the entries generated so far
     tx_inserted |-> FALSE,  \* the transaction row is written, uncommitted
     inserted |-> 0,         \* entry rows written, uncommitted
     accesses |-> 0,         \* queries the call has sent to the store
     start_tx |-> 0,         \* Len(transactions) when the call began
     start_en |-> 0]         \* Len(entries) when the call began

Init ==
    /\ accounts = {}
    /\ transactions = <<>>
    /\ entries = <<>>
    /\ call = [c \in Calls |-> IdleCall]

\* calls are numbered in the order they begin
CanStart(c) ==
    /\ call[c].pc = "idle"
    /\ \A d \in Calls : d < c => call[d].pc # "idle"

Return(c, r, res) == [r EXCEPT !.pc = "done", !.result = res]


\* ------------------------------------------ schema constraints (spec, section 6)
\* a transactions table without the UNIQUE constraint
UniqueKeyViolationNever(txs, key) == FALSE

\* transactions.idempotency_key UNIQUE: a committed row holds the key
UniqueKeyViolation(txs, key) ==
    Cardinality({i \in 1..Len(txs) : txs[i].idempotency_key = key}) > 0

\* an INSERT that waits for every uncommitted row of the table, whatever its key
UniqueKeyWaitAnyKey(c, key) ==
    \E d \in Calls \ {c} : call[d].tx_inserted

\* transactions.idempotency_key UNIQUE: an uncommitted row of another database
\* transaction holds the key, and the INSERT waits for that transaction to end
UniqueKeyWait(c, key) ==
    \E d \in Calls \ {c} :
        call[d].tx_inserted /\ call[d].tx.idempotency_key = key

\* entries.account_id FK accounts(id)
AccountForeignKeyOk(accts, account_id) == account_id \in accts

\* -------------------------------------------------------------------- lib.rs
\* LedgerService::create_account: Account::new draws a fresh id, the store inserts it
create_account ==
    /\ Cardinality(accounts) < MaxAccounts
    /\ accounts' = accounts \cup {Cardinality(accounts) + 1}
    /\ UNCHANGED <<transactions, entries, call>>

Begin(c, op, t) ==
    [call[c] EXCEPT !.op = op, !.tx = t,
                    !.start_tx = Len(transactions), !.start_en = Len(entries)]

\* credit_account up to its first await: Transaction::new and validate
credit_account(c, account_id, amount, key) ==
    /\ CanStart(c)
    /\ LET t == NewTransaction(c, "Credit", amount, None, account_id, key)
           r == Begin(c, "credit", t)
           v == validate(t)
       IN  call' = [call EXCEPT ![c] =
                IF v # "Ok" THEN Return(c, r, v)
                ELSE [r EXCEPT !.pc = "generate"]]
    /\ UNCHANGED <<accounts, transactions, entries>>

\* transfer without its funds check
InsufficientFundsNever(source_balance, amount) == FALSE

\* the funds check of transfer: source_balance < amount
InsufficientFunds(source_balance, amount) == source_balance < amount

\* transfer up to its second await: the balance read of the funds check,
\* the funds check, Transaction::new and validate
transfer(c, from_account_id, to_account_id, amount, key) ==
    /\ CanStart(c)
    /\ LET t == NewTransaction(c, "Transfer", amount, from_account_id,
                               to_account_id, key)
           b == get_account_balance(entries, from_account_id)
           r == [Begin(c, "transfer", t) EXCEPT !.source_balance = b,
                                                !.accesses = 1]
           v == validate(t)
       IN  call' = [call EXCEPT ![c] =
                IF InsufficientFunds(b, amount)
                    THEN Return(c, r, "InsufficientBalance")
                ELSE IF v # "Ok" THEN Return(c, r, v)
                ELSE [r EXCEPT !.pc = "generate"]]
    /\ UNCHANGED <<accounts, transactions, entries>>

\* create_credit_entries: one balance read, one Credit entry at the destination
create_credit_entries(t, es) ==
    IF t.destination_account_id # None
    THEN <<NewEntry(t.id, t.destination_account_id, t.amount, "Credit",
                    get_account_balance(es, t.destination_account_id) + t.amount)>>
    ELSE <<>>

\* create_transfer_entries, first half: the Debit entry at the source
transfer_source_entry(t, es) ==
    IF t.source_account_id # None
    THEN <<NewEntry(t.id, t.source_account_id, t.amount, "Debit",
                    get_account_balance(es, t.source_account_id) - t.amount)>>
    ELSE <<>>

\* create_transfer_entries, second half: the Credit entry at the destination
transfer_dest_entry(t, es) ==
    IF t.destination_account_id # None
    THEN <<NewEntry(t.id, t.destination_account_id, t.amount, "Credit",
                    get_account_balance(es, t.destination_account_id) + t.amount)>>
    ELSE <<>>

\* one balance read of create_credit_entries / create_transfer_entries and the
\* entry computed from it; after the last one the call enters record_transaction
generate_entries(c) ==
    /\ call[c].pc = "generate"
    /\ LET r == call[c]
           t == r.tx
           first == r.accesses = (IF r.op = "transfer" THEN 1 ELSE 0)
           e == IF r.op = "credit" THEN create_credit_entries(t, entries)
                ELSE IF first THEN transfer_source_entry(t, entries)
                ELSE transfer_dest_entry(t, entries)
           last == r.op = "credit" \/ ~first
       IN  call' = [call EXCEPT ![c] =
                [r EXCEPT !.gen = r.gen \o e,
                          !.accesses = r.accesses + 1,
                          !.pc = IF last THEN "rt_check" ELSE "generate"]]
    /\ UNCHANGED <<accounts, transactions, entries>>

\* ----------------------------------------- ledger_store.rs: record_transaction
\* a store that repeats the idempotency SELECT for as long as the key is found
RollbackSpinning(c, res) ==
    IF res = "IdempotencyViolation"
    THEN call[c]
    ELSE [call[c] EXCEPT !.pc = "done", !.result = res,
                         !.tx_inserted = FALSE, !.inserted = 0,
                         !.accesses = call[c].accesses + 1]

\* a store that runs the idempotency SELECT again after it found the key
RollbackRetrying(c, res) ==
    IF res = "IdempotencyViolation" /\ call[c].accesses < 2 * MaxCalls
    THEN [call[c] EXCEPT !.pc = "rt_check",
                         !.accesses = call[c].accesses + 1]
    ELSE [call[c] EXCEPT !.pc = "done", !.result = res,
                         !.tx_inserted = FALSE, !.inserted = 0,
                         !.accesses = call[c].accesses + 1]

\* a query of record_transaction ends the call with an error: dropping
\* db_transaction without commit rolls its rows back
Rollback(c, res) ==
    [call[c] EXCEPT !.pc = "done", !.result = res,
                    !.tx_inserted = FALSE, !.inserted = 0,
                    !.accesses = call[c].accesses + 1]

\* pool.begin() and the idempotency SELECT
record_transaction_check(c) ==
    /\ call[c].pc = "rt_check"
    /\ call' = [call EXCEPT ![c] =
            IF ExistingByKey(transactions, call[c].tx.idempotency_key)
            THEN Rollback(c, "IdempotencyViolation")
            ELSE [call[c] EXCEPT !.pc = "rt_insert_tx",
                                 !.accesses = call[c].accesses + 1]]
    /\ UNCHANGED <<accounts, transactions, entries>>

\* an INSERT executed on the pool instead of db_transaction: visible at once
VisibleAfterInsertAutocommit(rows, row) == Append(rows, row)

\* the committed rows of a table after an INSERT executed on db_transaction:
\* the new row stays private to the database transaction until it commits
VisibleAfterInsert(rows, row) == rows

\* INSERT INTO transactions
record_transaction_insert(c) ==
    /\ call[c].pc = "rt_insert_tx"
    /\ ~UniqueKeyWait(c, call[c].tx.idempotency_key)
    /\ LET violation ==
            UniqueKeyViolation(transactions, call[c].tx.idempotency_key)
       IN  /\ call' = [call EXCEPT ![c] =
                IF violation
                THEN Rollback(c, "DatabaseError(unique)")
                ELSE [call[c] EXCEPT !.tx_inserted = TRUE,
                                     !.accesses = call[c].accesses + 1,
                                     !.pc = IF Len(call[c].gen) = 0
                                            THEN "rt_commit"
                                            ELSE "rt_insert_entries"]]
           /\ transactions' = IF violation THEN transactions
                              ELSE VisibleAfterInsert(transactions, call[c].tx)
    /\ UNCHANGED <<accounts, entries>>

\* one iteration of `for entry in entries`: INSERT INTO entries
record_transaction_insert_entry(c) ==
    /\ call[c].pc = "rt_insert_entries"
    /\ LET r == call[c]
           e == r.gen[r.inserted + 1]
           fk == AccountForeignKeyOk(accounts, e.account_id)
       IN  /\ call' = [call EXCEPT ![c] =
                IF ~fk
                THEN Rollback(c, "DatabaseError(foreign key)")
                ELSE [r EXCEPT !.inserted = r.inserted + 1,
                               !.accesses = r.accesses + 1,
                               !.pc = IF r.inserted + 1 = Len(r.gen)
                                      THEN "rt_commit"
                                      ELSE "rt_insert_entries"]]
           /\ entries' = IF ~fk THEN entries
                         ELSE VisibleAfterInsert(entries, e)
    /\ UNCHANGED <<accounts, transactions>>

\* a query of the call fails in the store or on the way to it (sqlx::Error):
\* the ? operator returns DatabaseError, db_transaction (if begun) is dropped
store_failure(c) ==
    /\ call[c].pc \in {"generate", "rt_check", "rt_insert_tx",
                       "rt_insert_entries", "rt_commit"}
    /\ call' = [call EXCEPT ![c] = Rollback(c, "DatabaseError(connection)")]
    /\ UNCHANGED <<accounts, transactions, entries>>

\* a commit that also rewrites balance_after on the earlier entries of the
\* accounts it touches
record_transaction_commit_rewriting(c) ==
    /\ call[c].pc = "rt_commit"
    /\ transactions' = Append(transactions, call[c].tx)
    /\ LET written == SubSeq(call[c].gen, 1, call[c].inserted)
           latest(a) == CHOOSE j \in 1..Len(written) : written[j].account_id = a
       IN  entries' =
              [i \in 1..Len(entries) |->
                  IF \E j \in 1..Len(written) :
                        written[j].account_id = entries[i].account_id
                  THEN [entries[i] EXCEPT !.balance_after =
                            written[latest(entries[i].account_id)].balance_after]
                  ELSE entries[i]] \o written
    /\ call' = [call EXCEPT ![c] =
            [call[c] EXCEPT !.pc = "done", !.result = "Ok",
                            !.tx_inserted = FALSE, !.inserted = 0,
                            !.accesses = call[c].accesses + 1]]
    /\ UNCHANGED accounts

\* db_transaction.commit(): the rows of the call become visible together
record_transaction_commit(c) ==
    /\ call[c].pc = "rt_commit"
    /\ transactions' = Append(transactions, call[c].tx)
    /\ entries' = entries \o SubSeq(call[c].gen, 1, call[c].inserted)
    /\ call' = [call EXCEPT ![c] =
            [call[c] EXCEPT !.pc = "done", !.result = "Ok",
                            !.tx_inserted = FALSE, !.inserted = 0,
                            !.accesses = call[c].accesses + 1]]
    /\ UNCHANGED accounts

\* get_account, get_transaction, get_transaction_by_key,
\* get_account_transactions, get_entries_for_transaction and a caller's own
\* get_account_balance: each is one SELECT on the pool
store_query ==
    UNCHANGED <<accounts, transactions, entries, call>>

Next ==
    \/ create_account
    \/ \E c \in Calls, a \in AccountIds, m \in Amounts, k \in Keys :
            credit_account(c, a, m, k)
    \/ \E c \in Calls, a \in AccountIds, b \in AccountIds, m \in Amounts, k \in Keys :
            transfer(c, a, b, m, k)
    \/ \E c \in Calls : generate_entries(c)
    \/ \E c \in Calls : record_transaction_check(c)
    \/ \E c \in Calls : record_transaction_insert(c)
    \/ \E c \in Calls : record_transaction_insert_entry(c)
    \/ \E c \in Calls : record_transaction_commit(c)
    \/ \E c \in Calls : store_failure(c)
    \/ store_query

Spec == Init /\ [][Next]_vars

\* ==================================================================== claims
\* the balance of the data model: committed Credit amounts minus committed
\* Debit amounts of the account
LedgerBalance(es, a) ==
    LET rows == SelectSeq(es, LAMBDA e : e.account_id = a)
    IN  SumSeq([i \in 1..Len(rows) |->
                    IF rows[i].entry_type = "Credit" THEN rows[i].amount
                    ELSE -rows[i].amount])

Done(c) == call[c].pc = "done"
IsTransfer(c) == call[c].op = "transfer"
IsCredit(c) == call[c].op = "credit"

\* no row of call c is committed
NoRows(c) ==
    /\ \A i \in 1..Len(transactions) : transactions[i].id # c
    /\ \A i \in 1..Len(entries) : entries[i].transaction_id # c

\* the tables as they were when call c began
TransactionsAtStart(c) == SubSeq(transactions, 1, call[c].start_tx)
EntriesAtStart(c) == SubSeq(entries, 1, call[c].start_en)

\* C1: under any interleaving of transfers debiting the same account, the
\* account's balance (committed Credits minus committed Debits) is never
\* negative: no two transfers pass the funds check and both commit an overdraft.
C1_NeverOverdraft ==
    \A a \in AccountIds : LedgerBalance(entries, a) >= 0

\* C1 witness: two transfers that debit the same funded account began against
\* the same balance and both returned.
C1_Witness ==
    \E c \in Calls, d \in Calls :
        /\ c # d /\ Done(c) /\ Done(d) /\ IsTransfer(c) /\ IsTransfer(d)
        /\ call[c].tx.source_account_id = call[d].tx.source_account_id
        /\ call[c].tx.amount > 0 /\ call[d].tx.amount > 0
        /\ call[c].start_en = call[d].start_en
        /\ LedgerBalance(EntriesAtStart(c), call[c].tx.source_account_id) > 0

\* C3 (as claimed): the balance query returns the sum of the account's committed
\* Credit amounts minus the sum of its committed Debit amounts.
C3_BalanceIsCreditsMinusDebits ==
    \A a \in AccountIds :
        get_account_balance(entries, a) = LedgerBalance(entries, a)

\* the last committed entry of account a (a has one)
LastEntryOf(a) ==
    LET rows == SelectSeq(entries, LAMBDA e : e.account_id = a)
    IN  rows[Len(rows)]

\* C4 (as claimed): for an account with a committed entry, the balance query
\* returns the balance_after of its most recently committed entry.
C4_BalanceIsLastBalanceAfter ==
    \A a \in AccountIds :
        (\E i \in 1..Len(entries) : entries[i].account_id = a)
            => get_account_balance(entries, a) = LastEntryOf(a).balance_after

\* account b existed when call c began: ids are handed out in increasing order,
\* and an account with that id or a larger one had a committed entry by then
OpenedAtStart(c, b) ==
    \E i \in 1..call[c].start_en : entries[i].account_id >= b

\* the transfers of amount m that debit account a
TransfersFrom(a, m) ==
    {c \in Calls : /\ IsTransfer(c)
                   /\ call[c].tx.source_account_id = a
                   /\ call[c].tx.amount = m}

\* the calls of T are the N+extra transfers of the claim: valid requests to an
\* existing destination, with pairwise distinct keys no other call commits,
\* begun against the same balance N * m of account a, all returned, nothing
\* else in flight, and nothing but them committed on a since they began
ConcurrentTransfers(T, a, m, N, extra) ==
    /\ N >= 1 /\ Cardinality(T) = N + extra
    /\ \A c \in Calls : call[c].pc \in {"idle", "done"}
    /\ \A c \in T :
        /\ validate(call[c].tx) = "Ok"
        /\ OpenedAtStart(c, call[c].tx.destination_account_id)
        /\ \A i \in 1..Len(transactions) :
                transactions[i].idempotency_key = call[c].tx.idempotency_key
                    => transactions[i].id = c
        /\ LedgerBalance(EntriesAtStart(c), a) = N * m
        /\ \A d \in T : d # c =>
                call[d].tx.idempotency_key # call[c].tx.idempotency_key
        /\ \A i \in (call[c].start_en + 1)..Len(entries) :
                entries[i].account_id = a => entries[i].transaction_id \in T

\* C2 (as claimed): from a balance of exactly N * A, N concurrent transfers of A
\* all succeed and leave balance 0; N + 1 of them yield exactly N successes and
\* at least one InsufficientBalance.
C2_NoDoubleSpend ==
    \A a \in AccountIds, m \in 1..MaxAmount, N \in 1..MaxCalls :
        LET T == TransfersFrom(a, m)
            ok == {c \in T : call[c].result = "Ok"}
        IN  /\ ConcurrentTransfers(T, a, m, N, 0) =>
                /\ ok = T
                /\ LedgerBalance(entries, a) = 0
            /\ ConcurrentTransfers(T, a, m, N, 1) =>
                /\ Cardinality(ok) = N
                /\ \E c \in T : call[c].result = "InsufficientBalance"
                /\ LedgerBalance(entries, a) = 0

\* the committed transactions with idempotency key k, and their entries
TransactionsOfKey(k) ==
    {i \in 1..Len(transactions) : transactions[i].idempotency_key = k}
EntriesOfKey(k) ==
    {j \in 1..Len(entries) :
        \E i \in TransactionsOfKey(k) : entries[j].transaction_id = transactions[i].id}

\* C5: after any interleaving of credit and transfer calls, at most one
\* persisted transaction exists for each idempotency_key, with exactly one
\* set of entries (one entry for a Credit, two for a Transfer).
C5_OneTransactionPerKey ==
    \A k \in Keys :
        /\ Cardinality(TransactionsOfKey(k)) <= 1
        /\ \A i \in TransactionsOfKey(k) :
            Cardinality(EntriesOfKey(k)) =
                (IF transactions[i].transaction_type = "Transfer" THEN 2 ELSE 1)

\* C5 witness: two calls with the same key both passed the idempotency SELECT
\* and reached the INSERT; one committed, the other has returned.
C5_Witness ==
    \E c \in Calls, d \in Calls :
        /\ c # d /\ Done(c) /\ Done(d)
        /\ call[c].tx.idempotency_key = call[d].tx.idempotency_key
        /\ call[c].result = "Ok"
        /\ call[d].result = "DatabaseError(unique)"

\* C6 (as claimed): a valid credit or transfer called with an idempotency_key
\* that a committed transaction already has returns IdempotencyViolation,
\* whatever the balances are, and commits no row.
C6_DuplicateKeyIsIdempotencyViolation ==
    \A c \in Calls :
        ( /\ Done(c)
          /\ validate(call[c].tx) = "Ok"
          /\ ExistingByKey(TransactionsAtStart(c), call[c].tx.idempotency_key) )
        => call[c].result = "IdempotencyViolation" /\ NoRows(c)

\* C7: a transfer whose amount is greater than the source's balance (committed
\* Credits minus committed Debits, when the funds check reads it) returns
\* InsufficientBalance and commits no transaction and no entry, so that no
\* balance changes.
C7_UnderfundedTransferRejected ==
    \A c \in Calls :
        ( /\ Done(c) /\ IsTransfer(c)
          /\ call[c].tx.amount >
                LedgerBalance(EntriesAtStart(c), call[c].tx.source_account_id) )
        => call[c].result = "InsufficientBalance" /\ NoRows(c)

\* C7 witness: an underfunded transfer between two different existing accounts
\* has returned InsufficientBalance.
C7_Witness ==
    \E c \in Calls :
        /\ Done(c) /\ IsTransfer(c)
        /\ call[c].tx.source_account_id \in accounts
        /\ call[c].tx.destination_account_id \in accounts
        /\ call[c].tx.source_account_id # call[c].tx.destination_account_id
        /\ call[c].tx.amount >
                LedgerBalance(EntriesAtStart(c), call[c].tx.source_account_id)
        /\ call[c].result = "InsufficientBalance"

\* C8 (as claimed): a credit or a transfer called with amount <= 0 returns
\* InvalidAmount without having sent any query to the store.
C8_InvalidAmountBeforeStorage ==
    \A c \in Calls :
        (Done(c) /\ call[c].tx.amount <= 0)
        => call[c].result = "InvalidAmount" /\ call[c].accesses = 0

\* C9 (as claimed): a transfer from an account to itself returns
\* SameAccountTransfer for every positive amount and every balance, and
\* commits no row.
C9_SameAccountRejected ==
    \A c \in Calls :
        ( /\ Done(c) /\ IsTransfer(c)
          /\ call[c].tx.amount > 0
          /\ call[c].tx.source_account_id = call[c].tx.destination_account_id )
        => call[c].result = "SameAccountTransfer" /\ NoRows(c)

\* the committed entries of transaction id
EntriesOfTransaction(id) ==
    SelectSeq(entries, LAMBDA e : e.transaction_id = id)

\* C10: every committed transfer has exactly two entries, a Debit on its source
\* and a Credit on its destination, both with the transaction's amount, so
\* that their signed amounts sum to zero.
C10_TransferEntriesBalanced ==
    \A i \in 1..Len(transactions) :
        transactions[i].transaction_type = "Transfer" =>
            LET t == transactions[i]
                es == EntriesOfTransaction(t.id)
            IN  /\ Len(es) = 2
                /\ \E j \in 1..2 :
                    /\ es[j].entry_type = "Debit"
                    /\ es[j].account_id = t.source_account_id
                    /\ es[j].amount = t.amount
                /\ \E j \in 1..2 :
                    /\ es[j].entry_type = "Credit"
                    /\ es[j].account_id = t.destination_account_id
                    /\ es[j].amount = t.amount
                /\ SumSeq([j \in 1..Len(es) |->
                        IF es[j].entry_type = "Credit" THEN es[j].amount
                        ELSE -es[j].amount]) = 0

\* C10's case: a transfer is committed
C10_Witness ==
    \E i \in 1..Len(transactions) : transactions[i].transaction_type = "Transfer"

\* C11: whenever a credit or transfer call has returned an error (a validation
\* error, InsufficientBalance, IdempotencyViolation, or a store failure at any
\* step of the commit), no transaction row and no entry row of that call is
\* persisted.
C11_FailedCallLeavesNoRows ==
    \A c \in Calls :
        (Done(c) /\ call[c].result # "Ok") => NoRows(c)

\* C11 witness: a call wrote its transaction row inside the database
\* transaction, then an entry INSERT or the commit failed, and it has returned.
C11_Witness ==
    \E c \in Calls :
        /\ Done(c)
        /\ call[c].result \in {"DatabaseError(foreign key)",
                               "DatabaseError(connection)"}
        /\ call[c].accesses >= 4

\* C12: a reader running beside commits never sees a partially committed
\* transaction: in every state the transaction row of a call is visible
\* exactly when all the entries the call wrote are visible, and no entry is
\* visible without its transaction row.
C12_NoPartialCommit ==
    \A c \in Calls :
        IF \E i \in 1..Len(transactions) : transactions[i].id = c
        THEN call[c].gen # <<>> /\ EntriesOfTransaction(c) = call[c].gen
        ELSE EntriesOfTransaction(c) = <<>>

\* C12 witness: a reader's state in the middle of a commit: one call has
\* written its transaction row and an entry row and has not committed, while
\* another transaction is already committed.
C12_Witness ==
    \E c \in Calls :
        /\ call[c].tx_inserted /\ call[c].inserted >= 1
        /\ call[c].pc = "rt_commit"
        /\ Len(transactions) >= 1

\* C13 (as claimed): on fresh accounts A and B, after credit(A, X) with a new
\* key the balance of A is X and A has one Credit entry with balance_after X;
\* a following transfer(A, B, Y) with 0 < Y <= X and a new key succeeds, writes
\* a Debit on A with balance_after X - Y and a Credit on B with balance_after Y,
\* and leaves balance(A) = X - Y and balance(B) = Y.
C13_WorkedSequence ==
    \A c \in Calls, d \in Calls :
        ( /\ IsCredit(c) /\ call[c].result = "Ok"
          /\ call[c].start_en = 0
          /\ entries[1].transaction_id = c )
        => LET A == call[c].tx.destination_account_id
               X == call[c].tx.amount
               B == call[d].tx.destination_account_id
               Y == call[d].tx.amount
           IN  /\ entries[1] = NewEntry(c, A, X, "Credit", X)
               /\ Len(entries) = 1 => get_account_balance(entries, A) = X
               /\ ( /\ IsTransfer(d) /\ Done(d)
                    /\ call[d].tx.source_account_id = A
                    /\ B # A /\ OpenedAtStart(d, B)
                    /\ Y > 0 /\ Y <= X
                    /\ call[d].start_en = 1
                    /\ call[d].tx.idempotency_key # call[c].tx.idempotency_key
                    /\ \A i \in 1..Len(transactions) :
                            transactions[i].id \in {c, d}
                    /\ \A e \in Calls \ {c, d} : call[e].pc \in {"idle", "done"} )
                  => /\ call[d].result = "Ok"
                     /\ EntriesOfTransaction(d) =
                            <<NewEntry(d, A, Y, "Debit", X - Y),
                              NewEntry(d, B, Y, "Credit", Y)>>
                     /\ get_account_balance(entries, A) = X - Y
                     /\ get_account_balance(entries, B) = Y


\* ------------------------------------------------ Transaction::validate alone
ValidateTypes == {"Credit", "Debit", "Transfer", "Reversal", "Adjustment"}
ValidateAmounts == (0 - 1)..(MaxAmount + 1)
OptionAccountIds == {None} \cup AccountIds

\* a caller holds one Transaction value, built by Transaction::new from any
\* arguments, over a store in any state of its accounts table
InitValidate ==
    /\ accounts \in SUBSET AccountIds
    /\ transactions = <<>>
    /\ entries = <<>>
    /\ \E ty \in ValidateTypes, amount \in ValidateAmounts,
          src \in OptionAccountIds, dst \in OptionAccountIds, key \in Keys :
            call = [c \in Calls |->
                      IF c = 1
                      THEN [IdleCall EXCEPT
                                !.op = "validate",
                                !.tx = NewTransaction(1, ty, amount, src, dst, key)]
                      ELSE IdleCall]

\* the caller calls t.validate(): the call reads self and returns
call_validate(c) ==
    /\ call[c].op = "validate"
    /\ call[c].pc = "idle"
    /\ call' = [call EXCEPT ![c] = Return(c, call[c], validate(call[c].tx))]
    /\ UNCHANGED <<accounts, transactions, entries>>

NextValidate == \E c \in Calls : call_validate(c)

SpecValidate == InitValidate /\ [][NextValidate]_vars

\* the rules of validation, numbered in the order of the specification
ValidateRuleFails(n, t) ==
    CASE n = 1 -> t.amount <= 0
      [] n = 2 -> t.transaction_type = "Credit" /\ t.destination_account_id = None
      [] n = 3 -> t.transaction_type = "Debit" /\ t.source_account_id = None
      [] n = 4 -> t.transaction_type = "Transfer"
                    /\ None \in {t.source_account_id, t.destination_account_id}
      [] n = 5 -> t.transaction_type = "Transfer"
                    /\ t.source_account_id = t.destination_account_id

ValidateRuleError(n) ==
    CASE n = 1 -> "InvalidAmount"
      [] n = 2 -> "MissingDestinationAccount"
      [] n = 3 -> "MissingSourceAccount"
      [] n = 4 -> "MissingAccountForTransfer"
      [] n = 5 -> "SameAccountTransfer"

FirstFailingRule(t) ==
    LET failing == {n \in 1..5 : ValidateRuleFails(n, t)}
    IN  IF failing = {} THEN 0
        ELSE CHOOSE n \in failing : \A m \in failing : n <= m

\* C14: validate returns the error of the first failing rule, in the order
\* InvalidAmount, MissingDestinationAccount (Credit), MissingSourceAccount
\* (Debit), MissingAccountForTransfer, SameAccountTransfer (Transfer), and Ok
\* when no rule fails (so Reversal and Adjustment with a positive amount are
\* accepted); the result is a function of the transaction's fields alone: it is
\* the same over every state of the store, and validate sends the store no query
\* and changes no table.
C14_ValidateFirstFailingRule ==
    \A c \in Calls :
        (call[c].op = "validate" /\ Done(c))
        => LET t == call[c].tx
               n == FirstFailingRule(t)
           IN  /\ call[c].result = IF n = 0 THEN "Ok" ELSE ValidateRuleError(n)
               /\ (t.transaction_type \in {"Reversal", "Adjustment"} /\ t.amount > 0)
                    => call[c].result = "Ok"
               /\ call[c].accesses = 0
               /\ transactions = <<>> /\ entries = <<>>

\* a Transfer with a non-positive amount and both accounts missing has been
\* validated: three rules fail, and the first one is reported
C14_Witness ==
    \E c \in Calls :
        /\ call[c].op = "validate" /\ Done(c)
        /\ call[c].tx.transaction_type = "Transfer"
        /\ call[c].tx.amount <= 0
        /\ call[c].tx.source_account_id = None
        /\ call[c].tx.destination_account_id = None
        /\ accounts # {}
        /\ call[c].result = "InvalidAmount"


\* the position of a call in the code of credit_account / transfer
PcRank(pc) ==
    CASE pc = "idle" -> 0
      [] pc = "generate" -> 1
      [] pc = "rt_check" -> 2
      [] pc = "rt_insert_tx" -> 3
      [] pc = "rt_insert_entries" -> 4
      [] pc = "rt_commit" -> 5
      [] pc = "done" -> 6

\* C15: no call is retried.  In every step, for every call: its position never
\* moves backwards; it enters record_transaction only from the end of entry
\* generation, and a step taken inside record_transaction's idempotency SELECT
\* leaves the SELECT, so record_transaction is invoked at most once per call;
\* the step in which the funds check or the commit attempt yields
\* InsufficientBalance or IdempotencyViolation is the step in which the call
\* returns, and it writes nothing; a call that has returned never takes another
\* step, sends no further query and gets no row into the tables afterwards.
C15_NoRetry ==
    [][\A c \in Calls :
        /\ PcRank(call'[c].pc) >= PcRank(call[c].pc)
        /\ (call'[c].pc = "rt_check" /\ call'[c] # call[c])
                => call[c].pc = "generate"
        /\ (call[c].pc = "rt_check" /\ call'[c] # call[c])
                => call'[c].pc \in {"rt_insert_tx", "done"}
        /\ (call[c].result = "none"
              /\ call'[c].result \in {"IdempotencyViolation", "InsufficientBalance"})
                => /\ call'[c].pc = "done"
                   /\ ~call'[c].tx_inserted /\ call'[c].inserted = 0
                   /\ transactions' = transactions /\ entries' = entries
        /\ (Done(c) /\ call[c].result \in {"IdempotencyViolation", "InsufficientBalance"})
                => /\ call'[c] = call[c]
                   /\ \A i \in 1..Len(transactions') : transactions'[i].id # c
                   /\ \A i \in 1..Len(entries') : entries'[i].transaction_id # c
        /\ Done(c) => call'[c] = call[c]
    ]_vars

\* a credit has returned IdempotencyViolation from its commit attempt, a
\* transfer has returned InsufficientBalance from its funds check, and a call
\* begun after both of them has committed
C15_Witness ==
    \E c \in Calls, d \in Calls, e \in Calls :
        /\ Done(c) /\ call[c].result = "IdempotencyViolation"
        /\ Done(d) /\ call[d].result = "InsufficientBalance"
        /\ Done(e) /\ call[e].result = "Ok" /\ e > c /\ e > d


\* C16 (as claimed): every committed entry's balance_after is the signed sum
\* (Credit positive, Debit negative) of the entries of its account committed up
\* to and including it, in commit order, under every interleaving.
C16_BalanceAfterIsRunningBalance ==
    \A i \in 1..Len(entries) :
        entries[i].balance_after =
            LedgerBalance(SubSeq(entries, 1, i), entries[i].account_id)


\* ---- the same calls executed one at a time, each to its end before the next
\* one call run alone on the tables st.txs, st.ens
SequentialStep(c, st) ==
    LET t == call[c].tx
        b == get_account_balance(st.ens, t.source_account_id)
        v == validate(t)
        gen == IF call[c].op = "credit" THEN create_credit_entries(t, st.ens)
               ELSE transfer_source_entry(t, st.ens)
                        \o transfer_dest_entry(t, st.ens)
        res == IF call[c].op = "transfer" /\ InsufficientFunds(b, t.amount)
                    THEN "InsufficientBalance"
               ELSE IF v # "Ok" THEN v
               ELSE IF ExistingByKey(st.txs, t.idempotency_key)
                    THEN "IdempotencyViolation"
               ELSE IF \E i \in 1..Len(gen) :
                          ~AccountForeignKeyOk(accounts, gen[i].account_id)
                    THEN "DatabaseError(foreign key)"
               ELSE "Ok"
    IN  [txs |-> IF res = "Ok" THEN Append(st.txs, t) ELSE st.txs,
         ens |-> IF res = "Ok" THEN st.ens \o gen ELSE st.ens,
         res |-> [st.res EXCEPT ![c] = res]]

RECURSIVE SequentialExecution(_, _)
SequentialExecution(order, st) ==
    IF order = <<>> THEN st
    ELSE SequentialExecution(Tail(order), SequentialStep(Head(order), st))

Orders(S) ==
    {p \in [1..Cardinality(S) -> S] :
        \A i \in 1..Cardinality(S), j \in 1..Cardinality(S) :
            p[i] = p[j] => i = j}

\* C17 (as claimed): when every call that began has returned, none of them
\* through a failure of the store or of a schema constraint, and every account
\* exists,
\* the results returned and the committed transactions and entries (every
\* balance_after included) are those of the same calls executed one at a time
\* in some order.
C17_SerializableOutcome ==
    LET S == {c \in Calls : Done(c)}
    IN  ( /\ \A c \in Calls : call[c].pc \in {"idle", "done"}
          /\ \A c \in S : call[c].result \notin
                {"DatabaseError(connection)", "DatabaseError(foreign key)",
                 "DatabaseError(unique)"}
          /\ accounts = AccountIds )
        => \E p \in Orders(S) :
              SequentialExecution(p,
                    [txs |-> <<>>, ens |-> <<>>,
                     res |-> [c \in Calls |-> "none"]])
                = [txs |-> transactions, ens |-> entries,
                   res |-> [c \in Calls |-> call[c].result]]


\* the call has passed the idempotency SELECT and sent the INSERT of its
\* transaction row: its balance reads, the SELECT and the INSERT are counted
SentInsert(c) ==
    call[c].accesses >=
        Len(call[c].gen) + (IF call[c].op = "transfer" THEN 1 ELSE 0) + 2

\* C18 (as claimed): when two or more calls with the same idempotency_key each
\* pass the idempotency SELECT before any of them commits, and none of them
\* fails for a reason other than the key, exactly one of them commits and each
\* of the others returns IdempotencyViolation and leaves no row of its own.
C18_SameKeyLosersGetIdempotencyViolation ==
    \A k \in Keys :
        LET R == {c \in Calls :
                    /\ Done(c) /\ SentInsert(c)
                    /\ call[c].tx.idempotency_key = k
                    /\ call[c].result \notin {"DatabaseError(connection)",
                                              "DatabaseError(foreign key)"}}
        IN  Cardinality(R) >= 2
            => /\ Cardinality(TransactionsOfKey(k)) = 1
               /\ Cardinality({c \in R : call[c].result = "Ok"}) = 1
               /\ \A c \in R :
                    call[c].result # "Ok"
                        => call[c].result = "IdempotencyViolation" /\ NoRows(c)


\* the call is between its first await and its return
InFlight(c) == call[c].pc \notin {"idle", "done"}

AccountsOf(c) ==
    {call[c].tx.source_account_id, call[c].tx.destination_account_id} \ {None}

\* the next step of the call's own code, its queries reaching the store
OwnStep(c) ==
    \/ generate_entries(c)
    \/ record_transaction_check(c)
    \/ record_transaction_insert(c)
    \/ record_transaction_insert_entry(c)
    \/ record_transaction_commit(c)

\* no other call in flight touches an account of c
DisjointAccounts(c) ==
    \A d \in Calls \ {c} : InFlight(d) => AccountsOf(c) \cap AccountsOf(d) = {}

\* C19 (as claimed): a call in flight whose accounts are touched by no other
\* call in flight can take its next step in every state, wherever the other
\* calls stand.
C19_DisjointAccountsNeverBlock ==
    \A c \in Calls :
        (InFlight(c) /\ DisjointAccounts(c)) => ENABLED OwnStep(c)

\* C19 (amended): a call in flight whose accounts are touched by no other call
\* in flight, and whose idempotency_key is carried by no other call in flight,
\* can take its next step in every state, wherever the other calls stand.
C19_DisjointAccountsAndKeysNeverBlock ==
    \A c \in Calls :
        ( /\ InFlight(c) /\ DisjointAccounts(c)
          /\ \A d \in Calls \ {c} :
                InFlight(d) => call[d].tx.idempotency_key # call[c].tx.idempotency_key )
        => ENABLED OwnStep(c)

\* a call is about to INSERT its transaction row while another call, on another
\* account and with another key, holds an uncommitted row and has not committed
C19_Witness ==
    \E c \in Calls, d \in Calls :
        /\ c # d
        /\ call[c].pc = "rt_insert_tx" /\ DisjointAccounts(c)
        /\ InFlight(d) /\ call[d].tx_inserted
        /\ AccountsOf(d) # {} /\ AccountsOf(c) # {}
        /\ call[d].tx.idempotency_key # call[c].tx.idempotency_key
        /\ \A e \in Calls \ {c} :
                InFlight(e) => call[e].tx.idempotency_key # call[c].tx.idempotency_key


\* every call is a future driven by the async runtime: whenever its next step
\* stays possible (its query is not waiting in the store), the step is taken
FairSpec == Spec /\ \A c \in Calls : WF_vars(OwnStep(c))

\* C20: under fair scheduling no call stays in flight for ever: at every point
\* of every behaviour, each call is later on either not yet begun or returned.
\* A call that has begun is never again not yet begun, so every call that
\* begins, transfers from A to B and from B to A running together included,
\* eventually returns a result.
C20_EveryStartedCallReturns ==
    \A c \in Calls : []<>(call[c].pc = "idle" \/ Done(c))

\* a transfer from A to B and a transfer from B to A have both returned, and so
\* has a credit that went through record_transaction beside them
C20_Witness ==
    \E c \in Calls, d \in Calls, e \in Calls :
        /\ IsTransfer(c) /\ IsTransfer(d) /\ c # d
        /\ call[c].tx.source_account_id = call[d].tx.destination_account_id
        /\ call[c].tx.destination_account_id = call[d].tx.source_account_id
        /\ call[c].tx.source_account_id # call[c].tx.destination_account_id
        /\ Done(c) /\ Done(d)
        /\ IsCredit(e) /\ Done(e) /\ call[e].result = "Ok"


\* ------------------------------------------------- calls that can be cancelled
\* a drop of db_transaction that commits what the call has written so far
cancelCommittingOnDrop(c) ==
    /\ call[c].pc \in {"generate", "rt_check", "rt_insert_tx",
                       "rt_insert_entries", "rt_commit"}
    /\ call' = [call EXCEPT ![c] =
            [call[c] EXCEPT !.pc = "done", !.result = "Cancelled",
                            !.tx_inserted = FALSE, !.inserted = 0]]
    /\ transactions' = IF call[c].tx_inserted
                       THEN Append(transactions, call[c].tx) ELSE transactions
    /\ entries' = entries \o SubSeq(call[c].gen, 1, call[c].inserted)
    /\ UNCHANGED accounts

\* the caller drops the future of the call at one of its awaits (a timeout or a
\* cancellation): the call stops there without a result, and db_transaction, if
\* begun, is dropped without commit, which rolls its rows back
cancel(c) ==
    /\ call[c].pc \in {"generate", "rt_check", "rt_insert_tx",
                       "rt_insert_entries", "rt_commit"}
    /\ call' = [call EXCEPT ![c] =
            [call[c] EXCEPT !.pc = "done", !.result = "Cancelled",
                            !.tx_inserted = FALSE, !.inserted = 0]]
    /\ transactions' = transactions
    /\ entries' = entries
    /\ UNCHANGED accounts

NextCancel ==
    \/ Next
    \/ \E c \in Calls : cancel(c)

SpecCancel == Init /\ [][NextCancel]_vars

\* C21: a call cancelled before its commit has no transaction row and no entry
\* row in the tables, and its idempotency_key stays unused: a call that is
\* rejected for its key (IdempotencyViolation from the SELECT, or the unique
\* violation of the INSERT) is rejected because of a committed transaction of a
\* call that returned Ok, never because of a cancelled call.
C21_CancelledCallAbortsCleanly ==
    \A c \in Calls :
        (Done(c) /\ call[c].result = "Cancelled")
        => /\ NoRows(c)
           /\ \A d \in Calls \ {c} :
                ( /\ Done(d)
                  /\ call[d].tx.idempotency_key = call[c].tx.idempotency_key
                  /\ call[d].result \in {"IdempotencyViolation",
                                         "DatabaseError(unique)"} )
                => \E i \in 1..Len(transactions) :
                      /\ transactions[i].idempotency_key = call[c].tx.idempotency_key
                      /\ transactions[i].id \notin {c, d}
                      /\ call[transactions[i].id].result = "Ok"

\* a credit was cancelled after it had written its transaction row and its
\* entry, and a call begun after it has committed with the same key
C21_Witness ==
    \E c \in Calls, d \in Calls :
        /\ Done(c) /\ call[c].result = "Cancelled" /\ call[c].accesses >= 4
        /\ d > c /\ Done(d) /\ call[d].result = "Ok"
        /\ call[d].tx.idempotency_key = call[c].tx.idempotency_key
        /\ call[d].start_tx = 0


\* C22 (as claimed): a call with valid arguments and a key no other call
\* carries, all of whose queries reach the store, and which refers to an account
\* that was never opened, returns AccountNotFound and leaves no row.
C22_UnopenedAccountIsAccountNotFound ==
    \A c \in Calls :
        ( /\ Done(c)
          /\ validate(call[c].tx) = "Ok"
          /\ ~(AccountsOf(c) \subseteq accounts)
          /\ call[c].result # "DatabaseError(connection)"
          /\ \A d \in Calls \ {c} :
                call[d].tx.idempotency_key # call[c].tx.idempotency_key )
        => call[c].result = "AccountNotFound" /\ NoRows(c)


IsPrefixOf(s, t) == Len(s) <= Len(t) /\ SubSeq(t, 1, Len(s)) = s

\* C23: committed data is append-only.  In every step of every operation
\* (credit, transfer, account creation, query, failed or successful) the
\* committed transactions and entries of before are still there afterwards, in
\* the same order and with every field unchanged: each table only grows at its
\* end.
C23_CommittedDataAppendOnly ==
    [][ /\ IsPrefixOf(transactions, transactions')
        /\ IsPrefixOf(entries, entries') ]_vars

\* two transactions are committed on the same account with different
\* balance_after, and a call that began after the first commit has failed
C23_Witness ==
    /\ Len(transactions) >= 2 /\ Len(entries) >= 2
    /\ entries[1].account_id = entries[2].account_id
    /\ entries[1].balance_after # entries[2].balance_after
    /\ \E c \in Calls :
            Done(c) /\ call[c].result # "Ok" /\ call[c].start_tx >= 1


\* ------------------------------------ callers that also pass negative amounts
SignedAmounts == (0 - MaxAmount)..MaxAmount

NextSigned ==
    \/ create_account
    \/ \E c \in Calls, a \in AccountIds, m \in SignedAmounts, k \in Keys :
            credit_account(c, a, m, k)
    \/ \E c \in Calls, a \in AccountIds, b \in AccountIds,
          m \in SignedAmounts, k \in Keys :
            transfer(c, a, b, m, k)
    \/ \E c \in Calls : generate_entries(c)
    \/ \E c \in Calls : record_transaction_check(c)
    \/ \E c \in Calls : record_transaction_insert(c)
    \/ \E c \in Calls : record_transaction_insert_entry(c)
    \/ \E c \in Calls : record_transaction_commit(c)
    \/ \E c \in Calls : store_failure(c)
    \/ store_query

SpecSigned == Init /\ [][NextSigned]_vars

\* C24: every committed transaction has amount > 0, and every committed entry
\* belongs to a committed transaction and carries that transaction's amount;
\* whatever amounts the callers pass (negative, zero or positive), no
\* transaction or entry with a zero or negative amount is committed.
C24_PersistedAmountsPositive ==
    /\ \A i \in 1..Len(transactions) : transactions[i].amount > 0
    /\ \A j \in 1..Len(entries) :
            /\ entries[j].amount > 0
            /\ \E i \in 1..Len(transactions) :
                    /\ transactions[i].id = entries[j].transaction_id
                    /\ transactions[i].amount = entries[j].amount

\* a transfer with a negative amount has passed the funds check and returned,
\* a credit with amount zero has returned, and a credit has committed
C24_Witness ==
    \E c \in Calls, d \in Calls :
        /\ IsTransfer(c) /\ Done(c) /\ call[c].tx.amount < 0
        /\ call[c].result = "InvalidAmount"
        /\ IsCredit(d) /\ Done(d) /\ call[d].tx.amount = 0
        /\ Len(transactions) >= 1 /\ Len(entries) >= 1


\* the results of a call rejected by validate or by the funds check
Rejections ==
    {"InvalidAmount", "MissingDestinationAccount", "MissingSourceAccount",
     "MissingAccountForTransfer", "SameAccountTransfer", "InsufficientBalance"}

\* C25 (as claimed): a call rejected by validation or by the funds check leaves
\* no transaction with its key, and a later call d that reuses the key commits
\* when it is valid, funded (a transfer's source holds at least the amount, by
\* committed Credits minus Debits, when d begins), refers to open accounts,
\* reaches the store with every query, and no call other than rejected ones
\* carries the key.
C25_RejectedCallKeepsKeyFree ==
    \A c \in Calls, d \in Calls :
        ( /\ c < d
          /\ Done(c) /\ call[c].result \in Rejections
          /\ Done(d)
          /\ call[d].tx.idempotency_key = call[c].tx.idempotency_key
          /\ validate(call[d].tx) = "Ok"
          /\ IsTransfer(d) =>
                LedgerBalance(EntriesAtStart(d), call[d].tx.source_account_id)
                    >= call[d].tx.amount
          /\ \A a \in AccountsOf(d) : OpenedAtStart(d, a)
          /\ call[d].result # "DatabaseError(connection)"
          /\ \A e \in Calls \ {d} :
                call[e].tx.idempotency_key = call[d].tx.idempotency_key
                    => Done(e) /\ call[e].result \in Rejections )
        => /\ NoRows(c)
           /\ call[d].result = "Ok"


\* the sum of the queried balances of all accounts
RECURSIVE SumOver(_, _)
SumOver(S, es) ==
    IF S = {} THEN 0
    ELSE LET a == CHOOSE x \in S : TRUE
         IN  get_account_balance(es, a) + SumOver(S \ {a}, es)

\* what the committed credits alone contribute to the queried balances
CommittedCreditsValue ==
    SumSeq([i \in 1..Len(transactions) |->
                IF transactions[i].transaction_type = "Credit"
                THEN EntrySign(NewEntry(transactions[i].id,
                                        transactions[i].destination_account_id,
                                        transactions[i].amount, "Credit", 0))
                ELSE 0])

\* C26: transfers conserve money.  The entries of a committed transfer lie on
\* its source and its destination only and change the two queried balances by
\* opposite amounts of equal magnitude, and in every state the sum of the
\* queried balances of all accounts is the value of the committed credits.
C26_TransfersConserveMoney ==
    /\ \A i \in 1..Len(transactions) :
            transactions[i].transaction_type = "Transfer" =>
                LET t == transactions[i]
                    es == EntriesOfTransaction(t.id)
                IN  /\ \A j \in 1..Len(es) :
                            es[j].account_id \in
                                {t.source_account_id, t.destination_account_id}
                    /\ get_account_balance(es, t.source_account_id)
                            = 0 - get_account_balance(es, t.destination_account_id)
                    /\ get_account_balance(es, t.source_account_id) # 0
    /\ SumOver(AccountIds, entries) = CommittedCreditsValue

\* C26's case: a transfer is committed beside a credit
C26_Witness ==
    \E i \in 1..Len(transactions), j \in 1..Len(transactions) :
        /\ transactions[i].transaction_type = "Transfer"
        /\ transactions[j].transaction_type = "Credit"

====
